---- MODULE Spec2Model ----
(***************************************************************************)
(* A model of the scripts.                                                 *)
(*                                                                         *)
(* scripts/get_hr.py in log mode: main() parses --target, --start, --end   *)
(* and --csv and runs download_hr_logs, which resolves and validates the   *)
(* date window, opens one Client session, requests the heart rate log of   *)
(* every day of the window one after the other, collects rows and finally  *)
(* writes them to a CSV file or prints a summary.  In realtime mode it     *)
(* runs realtime_hr; scripts/get_spo2.py runs collect_spo2 and summarize.  *)
(* Spec is the specification of these three.                               *)
(*                                                                         *)
(* scripts/demo_queries.py builds frames and gives them to the log         *)
(* parsers: SpecDemo.                                                      *)
(*                                                                         *)
(* Instants are records [day, tod, aware]: the calendar day, 0 for         *)
(* midnight or 1 for a later time of that day, and whether the datetime    *)
(* carries a zone (aware instants are all in UTC).  The package modules    *)
(* colmi_r02_client.client, .date_utils, .hr, .steps and .packet are not   *)
(* among the sources; the operators that stand for them say so.            *)
(***************************************************************************)
EXTENDS Integers, Sequences, FiniteSets, TLC

\* Bound of the model: the calendar has the days 1..MaxDay.
MaxDay == 3

\* Bounds of the model: --count is in 1..MaxCount, and the client returns at
\* most MaxReadings readings.
MaxCount == 2
MaxReadings == 3

\* Bound of the model: a log takes at most MaxFrames frames after its header.
MaxFrames == 2

Days == 1..MaxDay

\* The heart_rates a day's log may carry: none, an idle reading, a reading
\* followed by an idle one.
SampleSeqs == {<<>>, <<0>>, <<72, 0>>}

VARIABLES
    args,       \* argv of the script: target, start, end (strings or None), csv
    pc,         \* position of the program
    start,      \* download_hr_logs' start (None or a datetime)
    end,        \* download_hr_logs' end
    session,    \* the Client session: "none", "open", "closed"
    days,       \* what date_utils.dates_between(start, end) yields
    idx,        \* number of days the for loop has taken from it
    requests,   \* the instants get_heart_rate_log was called with, in order
    inflight,   \* the requests (by position) that have no outcome yet
    answers,    \* what happened to each request: "error", "nodata", "log", "cancel"
    rows,       \* the rows list
    printed,    \* the per-day status lines on stdout
    output,     \* the CSV file or the summary
    err,        \* the exception that ends the run, "none" without one
    today,      \* what date_utils.now() returned, None while it was not called
    logs,       \* the logs received and turned into rows, in order
    mode,       \* "log", "realtime" (get_hr.py --mode) or "spo2" (get_spo2.py)
    count,      \* get_spo2.py --count
    readings,   \* what client.get_realtime_reading returned
    result,     \* what collect_spo2 returned
    demo,       \* demo_queries.py: the command and payload bytes of a frame
    frame,      \* demo_queries.py: the frame p
    parser      \* the log parser the frame is given to

rtvars == <<mode, count, readings, result>>

demovars == <<demo, frame, parser>>

vars == <<args, pc, start, end, session, days, idx, requests, inflight,
          answers, rows, printed, output, err, today, logs, rtvars, demovars>>

----------------------------------------------------------------------------
\* Values

NoneDT == [kind |-> "none"]
NoneStr == [kind |-> "none"]

DT(d, t, a) == [kind |-> "dt", day |-> d, tod |-> t, aware |-> a]

\* The date strings of the command line: "date" is YYYY-MM-DD, "naive_time" a
\* full ISO datetime without offset, "aware_time" one with +00:00, "bad" a
\* string neither fromisoformat nor strptime accepts.
DateStrings ==
    {[kind |-> "str", form |-> f, day |-> d] :
        f \in {"date", "naive_time", "aware_time"}, d \in Days}
    \cup {[kind |-> "str", form |-> "bad", day |-> 0]}

ArgStrings == {NoneStr} \cup DateStrings

----------------------------------------------------------------------------
\* colmi_r02_client.date_utils

start_of_day(dt) == [dt EXCEPT !.tod = 0]

naive_to_aware(dt) == [dt EXCEPT !.aware = TRUE]

\* date_utils.now(): some aware instant of some day
Now == {DT(d, t, TRUE) : d \in Days, t \in 0..1}

\* a > b on datetimes of the same awareness
Later(a, b) == a.day > b.day \/ (a.day = b.day /\ a.tod > b.tod)

\* start, start + 1 day, ... while not later than end
dates_between(s, e) ==
    LET last == IF Later(DT(e.day, s.tod, TRUE), e) THEN e.day - 1 ELSE e.day
    IN [i \in 1..(IF last >= s.day THEN last - s.day + 1 ELSE 0) |->
            [s EXCEPT !.day = s.day + i - 1]]

----------------------------------------------------------------------------
\* normalize_date_input

ParseFails(s) == s.kind = "str" /\ s.form = "bad"

fromisoformat(s) ==
    DT(s.day, IF s.form = "date" THEN 0 ELSE 1, s.form = "aware_time")

normalize_date_input_keeps_naive(s) ==
    IF s = NoneStr THEN NoneDT ELSE start_of_day(fromisoformat(s))

normalize_date_input_keeps_time(s) ==
    IF s = NoneStr THEN NoneDT
    ELSE LET dt == fromisoformat(s)
         IN IF ~dt.aware THEN naive_to_aware(dt) ELSE dt

normalize_date_input(s) ==
    IF s = NoneStr THEN NoneDT
    ELSE LET dt == fromisoformat(s)
         IN start_of_day(IF ~dt.aware THEN naive_to_aware(dt) ELSE dt)

TargetOverrides_always(a) == a.target # NoneStr

\* main, lines 140-141: --target counts only without --start and --end
TargetOverrides(a) ==
    a.target # NoneStr /\ a.start = NoneStr /\ a.end = NoneStr

----------------------------------------------------------------------------
\* download_hr_logs: the window

\* lines 68-74: default to today, or to the one end given
ResolveWindow(s, e, now) ==
    IF s = NoneDT /\ e = NoneDT
        THEN [start |-> start_of_day(now), end |-> start_of_day(now)]
    ELSE IF s = NoneDT THEN [start |-> e, end |-> e]
    ELSE IF e = NoneDT THEN [start |-> s, end |-> s]
    ELSE [start |-> s, end |-> e]

\* lines 77-80
EnsureAware(dt) == IF ~dt.aware THEN naive_to_aware(dt) ELSE dt

WindowInvalid_unchecked(s, e) == FALSE

\* line 82
WindowInvalid(s, e) == Later(s, e)

----------------------------------------------------------------------------
\* download_hr_logs: the loop

Catches_nothing(e) == FALSE

Catches_everything(e) == TRUE

\* line 92, except Exception: asyncio.CancelledError is a BaseException
Catches(e) == e = "FetchError"

PcAfterRequest_no_await == "loop"

\* line 91: the call is awaited
PcAfterRequest == "await"

NoDataStatus_as_error == "Error"

\* line 97
NoDataStatus == "NoData"

SessionAfterExit_leaks_on_error(e) == IF e = "none" THEN "closed" ELSE "open"

\* line 87: async with calls __aexit__ however the block is left
SessionAfterExit(e) == "closed"

\* hr.HeartRateLog of the day asked for
Logs(d) ==
    {[kind |-> "log", timestamp |-> d, heart_rates |-> h] :
        h \in SampleSeqs}

ToRows_drops_zero(log) ==
    LET kept == SelectSeq([i \in 1..Len(log.heart_rates) |->
                              [ts |-> [day |-> log.timestamp.day, slot |-> i - 1],
                               hr |-> log.heart_rates[i]]],
                          LAMBDA r : r.hr # 0)
    IN kept

\* lines 101-103: one row per reading, with its time
ToRows(log) ==
    [i \in 1..Len(log.heart_rates) |->
        [ts |-> [day |-> log.timestamp.day, slot |-> i - 1],
         hr |-> log.heart_rates[i]]]

Status(d, s, n) == [day |-> d.day, status |-> s, n |-> n]

\* lines 105-120
WriteOutput(csv, rs) ==
    IF csv THEN [kind |-> "csv", rows |-> rs]
    ELSE [kind |-> "summary", total |-> Len(rs),
          values |-> SelectSeq([i \in 1..Len(rs) |-> rs[i].hr], LAMBDA v : v # 0)]

----------------------------------------------------------------------------
\* Real-time readings: realtime_hr of get_hr.py, collect_spo2 of get_spo2.py

\* the date options are not read outside log mode
NoArgs == [target |-> NoneStr, start |-> NoneStr, end |-> NoneStr, csv |-> FALSE]

Unset == [kind |-> "unset"]

ReadingVals == {0, 45, 97}

RECURSIVE SeqsUpTo(_, _)
SeqsUpTo(S, n) ==
    IF n = 0 THEN {<<>>}
    ELSE LET shorter == SeqsUpTo(S, n - 1)
         IN shorter \cup
            {Append(q, x) : q \in {t \in shorter : Len(t) = n - 1}, x \in S}

\* client.get_realtime_reading: None, or a list of readings
ClientResults ==
    {[kind |-> "none"]} \cup
    {[kind |-> "list", vals |-> v] : v \in SeqsUpTo(ReadingVals, MaxReadings)}

NonZero(v) == SelectSeq(v, LAMBDA r : r # 0)

RealtimeHr_no_guard(rd) ==
    IF rd.kind = "none" \/ rd.vals = <<>>
        THEN [err |-> "none", out |-> [kind |-> "no_readings"]]
    ELSE IF NonZero(rd.vals) = <<>>
        THEN [err |-> "StatisticsError", out |-> [kind |-> "raw", raw |-> rd.vals]]
    ELSE [err |-> "none",
          out |-> [kind |-> "stats", raw |-> rd.vals, valid |-> NonZero(rd.vals)]]

\* realtime_hr, lines 35-43: what it prints, and the exception it ends in
RealtimeHr(rd) ==
    IF rd.kind = "none" \/ rd.vals = <<>>
        THEN [err |-> "none", out |-> [kind |-> "no_readings"]]
    ELSE IF NonZero(rd.vals) = <<>>
        THEN [err |-> "none", out |-> [kind |-> "no_nonzero", raw |-> rd.vals]]
    ELSE [err |-> "none",
          out |-> [kind |-> "stats", raw |-> rd.vals, valid |-> NonZero(rd.vals)]]

\* collect_spo2, lines 22-34: count is not used
CollectSpo2(rd, n) ==
    IF rd.kind = "none" THEN <<>>
    ELSE SelectSeq(rd.vals, LAMBDA r : r # 0 /\ 50 <= r /\ r <= 100)

\* summarize, get_spo2.py lines 37-46
Summarize(v) ==
    IF v = <<>> THEN [kind |-> "spo2_none"] ELSE [kind |-> "spo2_stats", valid |-> v]

----------------------------------------------------------------------------
\* demo_queries.py: frames, and the log parsers they are given to

Byte == 0..255

\* bytearray(16)
FrameLen == 16

\* the subtype that stands for "no data"
NoDataSubtype == 255

RECURSIVE SumTo(_, _)
SumTo(p, n) == IF n = 0 THEN 0 ELSE SumTo(p, n - 1) + p[n]

\* packet.checksum: the sum of the bytes before the checksum slot, mod 256
checksum(p) == SumTo(p, FrameLen - 1) % 256

ZeroFrame == [i \in 1..FrameLen |-> 0]

DemoFrame_checksum_first(cmd, b1, b3) ==
    LET p0 == [ZeroFrame EXCEPT ![1] = cmd]
        p1 == [p0 EXCEPT ![FrameLen] = checksum(p0)]
    IN [p1 EXCEPT ![2] = b1, ![4] = b3]

\* demo_battery .. demo_steps_nodata: p = bytearray(16), p[0], p[1] and p[3]
\* are set, then p[-1] = packet.checksum(p)
DemoFrame(cmd, b1, b3) ==
    LET p == [ZeroFrame EXCEPT ![1] = cmd, ![2] = b1, ![4] = b3]
    IN [p EXCEPT ![FrameLen] = checksum(p)]

NewParser == [state |-> "AwaitingFirst", expect |-> 0, received |-> 0,
              result |-> "none"]

FirstFrame_heart_rate_only(f, n) ==
    IF f[2] = NoDataSubtype /\ f[1] = 21
        THEN [state |-> "NoDataTerminal", expect |-> 0, received |-> 0,
              result |-> "NoData"]
    ELSE [state |-> "Accumulating", expect |-> n, received |-> 0,
          result |-> "none"]

\* the parser's first frame: the sentinel subtype ends the request with NoData,
\* any other header announces n further frames
FirstFrame(f, n) ==
    IF f[2] = NoDataSubtype
        THEN [state |-> "NoDataTerminal", expect |-> 0, received |-> 0,
              result |-> "NoData"]
    ELSE [state |-> "Accumulating", expect |-> n, received |-> 0,
          result |-> "none"]

\* a further frame of the request
Accumulate(ps) ==
    IF ps.received + 1 = ps.expect
        THEN [ps EXCEPT !.received = @ + 1, !.state = "Complete", !.result = "Log"]
    ELSE [ps EXCEPT !.received = @ + 1]

----------------------------------------------------------------------------
Init ==
    /\ \/ /\ mode = "log"
          /\ args \in [target : ArgStrings, start : ArgStrings,
                       end : ArgStrings, csv : BOOLEAN]
          /\ count = 0
          /\ pc = "main"
       \/ /\ mode = "realtime"
          /\ args = NoArgs
          /\ count = 0
          /\ pc = "rt_main"
       \/ /\ mode = "spo2"
          /\ args = NoArgs
          /\ count \in 1..MaxCount
          /\ pc = "rt_main"
    /\ readings = Unset
    /\ result = Unset
    /\ demo = Unset
    /\ frame = <<>>
    /\ parser = NewParser
    /\ start = NoneDT
    /\ end = NoneDT
    /\ session = "none"
    /\ days = <<>>
    /\ idx = 0
    /\ requests = <<>>
    /\ inflight = {}
    /\ answers = <<>>
    /\ rows = <<>>
    /\ printed = <<>>
    /\ output = [kind |-> "none"]
    /\ err = "none"
    /\ today = NoneDT
    /\ logs = <<>>

\* main, lines 137-145, up to the call of download_hr_logs
Main ==
    /\ pc = "main"
    /\ IF \E s \in {args.target, args.start, args.end} : ParseFails(s)
       THEN /\ pc' = "raised"
            /\ err' = "BadDate"
            /\ UNCHANGED <<start, end>>
       ELSE LET target == normalize_date_input(args.target)
                s == normalize_date_input(args.start)
                e == normalize_date_input(args.end)
                override == TargetOverrides(args)
            IN /\ start' = IF override THEN target ELSE s
               /\ end' = IF override THEN target ELSE e
               /\ pc' = "download"
               /\ err' = err
    /\ UNCHANGED <<args, session, days, idx, requests, inflight, answers, rows,
                   printed, output>>
    /\ UNCHANGED <<today, logs>>
    /\ UNCHANGED rtvars
    /\ UNCHANGED demovars

\* download_hr_logs, lines 68-85
Resolve ==
    /\ pc = "download"
    /\ \E now \in Now :
        LET w == ResolveWindow(start, end, now)
            s == EnsureAware(w.start)
            e == EnsureAware(w.end)
        IN /\ today' = IF start = NoneDT /\ end = NoneDT THEN now ELSE today
           /\ start' = s
           /\ end' = e
           /\ IF WindowInvalid(s, e)
              THEN pc' = "raised" /\ err' = "WindowError"
              ELSE pc' = "connect" /\ err' = err
    /\ rows' = <<>>
    /\ UNCHANGED <<args, session, days, idx, requests, inflight, answers,
                   printed, output, logs>>
    /\ UNCHANGED rtvars
    /\ UNCHANGED demovars

\* line 87, Client.__aenter__ connects; line 88 starts the iteration
Connect ==
    /\ pc = "connect"
    /\ session' = "open"
    /\ days' = dates_between(start, end)
    /\ idx' = 0
    /\ pc' = "loop"
    /\ UNCHANGED <<args, start, end, requests, inflight, answers, rows, printed,
                   output, err>>
    /\ UNCHANGED <<today, logs>>
    /\ UNCHANGED rtvars
    /\ UNCHANGED demovars

\* line 87, the connection cannot be made
ConnectFails ==
    /\ pc = "connect"
    /\ pc' = "raised"
    /\ err' = "ConnectError"
    /\ UNCHANGED <<args, start, end, session, days, idx, requests, inflight,
                   answers, rows, printed, output>>
    /\ UNCHANGED <<today, logs>>
    /\ UNCHANGED rtvars
    /\ UNCHANGED demovars

\* lines 88-91: the next day of the window is requested
Request ==
    /\ pc = "loop"
    /\ idx < Len(days)
    /\ idx' = idx + 1
    /\ requests' = Append(requests, start_of_day(days[idx + 1]))
    /\ inflight' = inflight \cup {idx + 1}
    /\ pc' = PcAfterRequest
    /\ UNCHANGED <<args, start, end, session, days, answers, rows, printed,
                   output, err>>
    /\ UNCHANGED <<today, logs>>
    /\ UNCHANGED rtvars
    /\ UNCHANGED demovars

\* An exception e leaves the await of line 91: lines 92-94 or out of the block
Throw(e, answer) ==
    /\ pc = "await"
    /\ answers' = Append(answers, answer)
    /\ inflight' = inflight \ {idx}
    /\ IF Catches(e)
       THEN /\ printed' = Append(printed, Status(days[idx], "Error", 0))
            /\ pc' = "loop"
            /\ err' = err
       ELSE /\ printed' = printed
            /\ pc' = "exit"
            /\ err' = e
    /\ UNCHANGED <<args, start, end, session, days, idx, requests, rows, output>>
    /\ UNCHANGED <<today, logs>>
    /\ UNCHANGED rtvars
    /\ UNCHANGED demovars

\* the fetch or the parse of the day fails
FetchError == Throw("FetchError", "error")

\* the task is cancelled while it waits for the day's log
Cancel == Throw("Cancelled", "cancel")

\* lines 96-98
FetchNoData ==
    /\ pc = "await"
    /\ answers' = Append(answers, "nodata")
    /\ inflight' = inflight \ {idx}
    /\ printed' = Append(printed, Status(days[idx], NoDataStatus, 0))
    /\ pc' = "loop"
    /\ UNCHANGED <<args, start, end, session, days, idx, requests, rows, output,
                   err>>
    /\ UNCHANGED <<today, logs>>
    /\ UNCHANGED rtvars
    /\ UNCHANGED demovars

\* lines 100-103
FetchLog ==
    /\ pc = "await"
    /\ \E log \in Logs(requests[idx]) :
        /\ printed' = Append(printed,
                             Status(days[idx], "Received", Len(log.heart_rates)))
        /\ rows' = rows \o ToRows(log)
        /\ logs' = Append(logs, log)
    /\ answers' = Append(answers, "log")
    /\ inflight' = inflight \ {idx}
    /\ pc' = "loop"
    /\ UNCHANGED <<args, start, end, session, days, idx, requests, output, err,
                   today>>
    /\ UNCHANGED rtvars
    /\ UNCHANGED demovars

\* lines 100-101: heart_rates_with_times raises, outside the try
FetchLogRowsFail ==
    /\ pc = "await"
    /\ \E log \in Logs(requests[idx]) :
        printed' = Append(printed,
                          Status(days[idx], "Received", Len(log.heart_rates)))
    /\ answers' = Append(answers, "log")
    /\ inflight' = inflight \ {idx}
    /\ pc' = "exit"
    /\ err' = "RowError"
    /\ UNCHANGED <<args, start, end, session, days, idx, requests, rows, output>>
    /\ UNCHANGED <<today, logs>>
    /\ UNCHANGED rtvars
    /\ UNCHANGED demovars

\* line 88: the window is exhausted
LoopEnd ==
    /\ pc = "loop"
    /\ idx >= Len(days)
    /\ pc' = "exit"
    /\ UNCHANGED <<args, start, end, session, days, idx, requests, inflight,
                   answers, rows, printed, output, err>>
    /\ UNCHANGED <<today, logs>>
    /\ UNCHANGED rtvars
    /\ UNCHANGED demovars

\* line 87, Client.__aexit__, then lines 105-120 or the exception goes on
Exit ==
    /\ pc = "exit"
    /\ session' = SessionAfterExit(err)
    /\ IF err = "none"
       THEN pc' = "done" /\ output' = WriteOutput(args.csv, rows)
       ELSE pc' = "raised" /\ output' = output
    /\ UNCHANGED <<args, start, end, days, idx, requests, inflight, answers,
                   rows, printed, err>>
    /\ UNCHANGED <<today, logs>>
    /\ UNCHANGED rtvars
    /\ UNCHANGED demovars

\* get_hr.py lines 134-135 and 32, get_spo2.py lines 58 and 24: the session
\* is opened
RtConnect ==
    /\ pc = "rt_main"
    /\ session' = "open"
    /\ pc' = "rt_await"
    /\ UNCHANGED <<args, start, end, days, idx, requests, inflight, answers,
                   rows, printed, output, err, today, logs, rtvars>>
    /\ UNCHANGED demovars

\* an exception e leaves realtime_hr or collect_spo2: get_hr.py has no
\* handler, get_spo2.py's main prints it (lines 60-61)
RtRaised(e) ==
    IF mode = "spo2"
    THEN pc' = "done" /\ output' = [kind |-> "spo2_error"]
    ELSE pc' = "raised" /\ output' = output

\* the connection cannot be made
RtConnectFails ==
    /\ pc = "rt_main"
    /\ err' = "ConnectError"
    /\ RtRaised("ConnectError")
    /\ UNCHANGED <<args, start, end, session, days, idx, requests, inflight,
                   answers, rows, printed, today, logs, rtvars>>
    /\ UNCHANGED demovars

\* get_hr.py lines 34-43, get_spo2.py lines 26-30: the client returns
RtReading ==
    /\ pc = "rt_await"
    /\ \E rd \in ClientResults :
        /\ readings' = rd
        /\ IF mode = "realtime"
           THEN /\ output' = RealtimeHr(rd).out
                /\ err' = RealtimeHr(rd).err
           ELSE UNCHANGED <<output, err>>
    /\ pc' = "rt_exit"
    /\ UNCHANGED <<args, start, end, session, days, idx, requests, inflight,
                   answers, rows, printed, today, logs, mode, count, result>>
    /\ UNCHANGED demovars

\* get_hr.py line 34, get_spo2.py line 26: the client raises
RtReadError ==
    /\ pc = "rt_await"
    /\ err' = "ReadError"
    /\ pc' = "rt_exit"
    /\ UNCHANGED <<args, start, end, session, days, idx, requests, inflight,
                   answers, rows, printed, output, today, logs, rtvars>>
    /\ UNCHANGED demovars

\* get_hr.py line 32, get_spo2.py line 24: Client.__aexit__; then realtime_hr
\* is over, and collect_spo2 returns (lines 33-34) to main (lines 58-61)
RtExit ==
    /\ pc = "rt_exit"
    /\ session' = SessionAfterExit(err)
    /\ IF err # "none"
       THEN RtRaised(err) /\ result' = result
       ELSE /\ pc' = "done"
            /\ IF mode = "spo2"
               THEN /\ result' = CollectSpo2(readings, count)
                    /\ output' = Summarize(CollectSpo2(readings, count))
               ELSE UNCHANGED <<result, output>>
    /\ UNCHANGED <<args, start, end, days, idx, requests, inflight, answers,
                   rows, printed, err, today, logs, mode, count, readings>>
    /\ UNCHANGED demovars

Next ==
    \/ Main
    \/ Resolve
    \/ Connect
    \/ ConnectFails
    \/ Request
    \/ FetchError
    \/ Cancel
    \/ FetchNoData
    \/ FetchLog
    \/ FetchLogRowsFail
    \/ LoopEnd
    \/ Exit
    \/ RtConnect
    \/ RtConnectFails
    \/ RtReading
    \/ RtReadError
    \/ RtExit

Spec == Init /\ [][Next]_vars

----------------------------------------------------------------------------
\* demo_queries.py

logvars == <<args, start, end, session, days, idx, requests, inflight, answers,
             rows, printed, output, err, today, logs>>

InitDemo ==
    /\ mode = "demo"
    /\ pc = "demo_build"
    /\ demo \in [cmd : Byte, b1 : Byte, b3 : {0, 81}]
    /\ frame = <<>>
    /\ parser = NewParser
    /\ args = NoArgs
    /\ count = 0
    /\ readings = Unset
    /\ result = Unset
    /\ start = NoneDT
    /\ end = NoneDT
    /\ session = "none"
    /\ days = <<>>
    /\ idx = 0
    /\ requests = <<>>
    /\ inflight = {}
    /\ answers = <<>>
    /\ rows = <<>>
    /\ printed = <<>>
    /\ output = [kind |-> "none"]
    /\ err = "none"
    /\ today = NoneDT
    /\ logs = <<>>

\* lines 11-15, 23-28, 36-39, 46-49: the frame is built
DemoBuild ==
    /\ pc = "demo_build"
    /\ frame' = DemoFrame(demo.cmd, demo.b1, demo.b3)
    /\ pc' = "demo_parse"
    /\ UNCHANGED <<logvars, rtvars, demo, parser>>

\* lines 41 and 51: a new parser is given the frame
DemoParse ==
    /\ pc = "demo_parse"
    /\ \E n \in 1..MaxFrames : parser' = FirstFrame(frame, n)
    /\ pc' = "demo_parsed"
    /\ UNCHANGED <<logvars, rtvars, demo, frame>>

\* the parser is given a further frame of the request
ParserNextFrame ==
    /\ pc = "demo_parsed"
    /\ parser.state = "Accumulating"
    /\ parser.received < parser.expect
    /\ parser' = Accumulate(parser)
    /\ UNCHANGED <<pc, logvars, rtvars, demo, frame>>

\* the session ends before the log is complete
ParserSessionEnd ==
    /\ pc = "demo_parsed"
    /\ parser.state = "Accumulating"
    /\ parser' = [parser EXCEPT !.state = "Incomplete",
                                !.result = "IncompleteLogError"]
    /\ UNCHANGED <<pc, logvars, rtvars, demo, frame>>

NextDemo ==
    \/ DemoBuild
    \/ DemoParse
    \/ ParserNextFrame
    \/ ParserSessionEnd

SpecDemo == InitDemo /\ [][NextDemo]_vars

\* C14: a parser whose first frame carries subtype 255 is in NoDataTerminal
\* with the result NoData, whatever the command byte; it is never in
\* Accumulating, Complete or Incomplete.
C14_SentinelGivesNoData ==
    (pc = "demo_parsed" /\ frame[2] = NoDataSubtype) =>
        /\ parser.state = "NoDataTerminal"
        /\ parser.result = "NoData"

\* C14: the frame of a command other than the heart rate log's, subtype 255
C14_Witness ==
    /\ pc = "demo_parsed"
    /\ frame[1] = 67
    /\ frame[2] = 255
    /\ parser.state = "NoDataTerminal"

\* C15: the last byte of the frame the demo built is the sum of the fifteen
\* bytes before it, mod 256, and the bytes set are the ones asked for.
C15_DemoFrameChecksum ==
    frame # <<>> =>
        /\ Len(frame) = 16
        /\ frame[1] = demo.cmd /\ frame[2] = demo.b1 /\ frame[4] = demo.b3
        /\ frame[16] = (demo.cmd + demo.b1 + demo.b3) % 256
        /\ \A i \in (1..15) \ {1, 2, 4} : frame[i] = 0

\* C15: a frame whose bytes add up to more than a byte holds
C15_Witness ==
    /\ frame # <<>>
    /\ demo = [cmd |-> 255, b1 |-> 255, b3 |-> 81]
    /\ frame[16] = 79

----------------------------------------------------------------------------
\* Properties

\* the run is over: download_hr_logs returned, or an exception left main
Finished == pc \in {"done", "raised"}

\* the for loop has been left
LoopLeft == pc \in {"exit", "done", "raised"}

\* one of --start, --end is a date string without zone
NaiveGiven ==
    \E s \in {args.start, args.end} :
        s.kind = "str" /\ s.form \in {"date", "naive_time"}

\* C1: a day whose fetch raises is recorded as an error, the exception never
\* leaves the loop, and the loop is not left before the next day of the window
\* has been requested; a run that returns has requested every day.
C1_FetchFailureDoesNotAbort ==
    /\ err # "FetchError"
    /\ \A i \in 1..Len(answers) :
        answers[i] = "error" =>
            /\ i <= Len(printed)
            /\ printed[i] = Status(days[i], "Error", 0)
            /\ session # "none"
            /\ (LoopLeft /\ i < Len(days)) =>
                    /\ Len(requests) > i
                    /\ requests[i + 1] = start_of_day(days[i + 1])
    /\ pc = "done" => Len(requests) = Len(days)

\* C1: the first day of a longer window failed, and the run went on to the end
C1_Witness ==
    /\ pc = "done"
    /\ Len(days) >= 2
    /\ answers[1] = "error"
    /\ answers[Len(days)] = "log"
    /\ rows # <<>>

\* C2: when the run is over without having been cancelled, the rows collected
\* are in the CSV file or counted in the summary.
C2_CollectedRowsInOutput ==
    (Finished /\ err # "Cancelled" /\ rows # <<>>) =>
        \/ output.kind = "csv" /\ output.rows = rows
        \/ output.kind = "summary" /\ output.total = Len(rows)

\* C3: when a run that opened the session is over without having been
\* cancelled, there is one status entry for every day of the window, in order.
C3_StatusForEveryDay ==
    (Finished /\ session # "none" /\ err # "Cancelled") =>
        /\ Len(printed) = Len(days)
        /\ \A i \in 1..Len(days) : printed[i].day = days[i].day

\* C4: with start > end the run ends in the window's ValueError, and neither
\* a session is opened nor a request sent.
C4_InvalidWindowRaisesFirst ==
    (pc # "main" /\ start # NoneDT /\ end # NoneDT /\ Later(start, end)) =>
        /\ session = "none"
        /\ requests = <<>>
        /\ pc = "download" \/ (pc = "raised" /\ err = "WindowError")

\* C4: --start is a later day than --end, and the run has ended in the error
C4_Witness ==
    /\ pc = "raised"
    /\ err = "WindowError"
    /\ args.start.kind = "str"
    /\ args.end.kind = "str"
    /\ args.start.day > args.end.day
    /\ session = "none"

\* C5 as stated: with a naive --start or --end no request is sent and the run
\* does not complete.
C5_NaiveRejected ==
    NaiveGiven => requests = <<>> /\ pc # "done"

\* C5 as amended: naive instants are made aware, not rejected.  What main hands
\* to download_hr_logs is None or aware, the window that is checked is aware,
\* every request carries an aware instant, and a validation error comes only
\* from an unparsable date or from start > end, before anything is opened.
C5_NaiveInterpretedAsUTC ==
    /\ \A d \in {start, end} : d # NoneDT => d.aware
    /\ \A i \in 1..Len(requests) : requests[i].aware
    /\ err = "BadDate" =>
            \E s \in {args.target, args.start, args.end} : ParseFails(s)
    /\ err = "WindowError" => Later(start, end)
    /\ err \in {"BadDate", "WindowError"} => session = "none" /\ requests = <<>>

\* C5: naive --start and --end, and the run completed with requests sent
C5_Witness ==
    /\ pc = "done"
    /\ args.start.kind = "str" /\ args.start.form = "date"
    /\ args.end.kind = "str" /\ args.end.form = "naive_time"
    /\ Len(requests) >= 2
    /\ \A i \in 1..Len(requests) : requests[i].aware

\* C6: when a run that opened the session is over without having been
\* cancelled, the requests sent are the start-of-day instants of the days
\* start..end, each once, in ascending order.
C6_EveryDayRequestedOnce ==
    (mode = "log" /\ Finished /\ session # "none" /\ err # "Cancelled") =>
        requests = [i \in 1..(end.day - start.day + 1) |->
                        DT(start.day + i - 1, 0, TRUE)]

\* C7: at most one request is without outcome, only while the loop waits for
\* it, and it is the latest one: every earlier request has its outcome.
C7_OneRequestAtATime ==
    /\ Cardinality(inflight) <= 1
    /\ inflight # {} => pc = "await" /\ inflight = {Len(requests)}
    /\ Len(requests) = Len(answers) + Cardinality(inflight)
    /\ Len(requests) = idx

\* C7: the second day's request is out, the first day's outcome is in
C7_Witness ==
    /\ pc = "await"
    /\ Len(requests) = 2
    /\ Len(answers) = 1
    /\ inflight = {2}

\* C8: when the run is over the session is not held, and the output is only
\* written once it is released.
C8_SessionReleased ==
    /\ Finished => session # "open"
    /\ (mode = "log" /\ output.kind # "none") => session = "closed"

\* C8: an exception left the loop and the session that was open is closed
C8_Witness ==
    /\ pc = "raised"
    /\ err \in {"RowError", "Cancelled"}
    /\ session = "closed"
    /\ requests # <<>>

\* C9: a cancelled fetch is the last request of the run: it is not recorded
\* as a failed day, nothing is in flight after it and the exception leaves the
\* loop.
C9_CancelEndsRange ==
    \A i \in 1..Len(answers) :
        answers[i] = "cancel" =>
            /\ i = Len(answers)
            /\ Len(requests) = i
            /\ inflight = {}
            /\ Len(printed) = i - 1
            /\ pc \in {"exit", "raised"}
            /\ err = "Cancelled"

\* C9: cancelled on the first day of a longer window; the run is over
C9_Witness ==
    /\ pc = "raised"
    /\ err = "Cancelled"
    /\ answers = <<"cancel">>
    /\ Len(days) >= 2
    /\ Len(requests) = 1

\* C10: a day is reported as NoData exactly when the device answered NoData,
\* with no sample and no row of that day, and the loop is not left before the
\* next day has been requested; a received log, even an empty one, is reported
\* as received and a failed fetch as an error.
C10_NoDataReported ==
    \A i \in 1..Len(printed) :
        /\ printed[i].status = "NoData" <=> answers[i] = "nodata"
        /\ printed[i].status = "Received" <=> answers[i] = "log"
        /\ printed[i].status = "Error" <=> answers[i] = "error"
        /\ answers[i] = "nodata" =>
            /\ printed[i].n = 0
            /\ \A k \in 1..Len(rows) : rows[k].ts.day # days[i].day
            /\ err # "none" => err \in {"RowError", "Cancelled"}
            /\ (LoopLeft /\ i < Len(days)) => Len(requests) > i

\* C10: a NoData day, then an empty log, then a failed day, and the run ended
C10_Witness ==
    /\ pc = "done"
    /\ answers = <<"nodata", "log", "error">>
    /\ printed[1].status = "NoData"
    /\ printed[2] = [day |-> days[2].day, status |-> "Received", n |-> 0]
    /\ rows = <<>>

\* the rows of the logs ls: log after log, a row per reading in arrival order
RECURSIVE RowsOf(_)
RowsOf(ls) ==
    IF ls = <<>> THEN <<>>
    ELSE LET log == ls[Len(ls)]
         IN RowsOf(SubSeq(ls, 1, Len(ls) - 1)) \o
            [k \in 1..Len(log.heart_rates) |->
                [ts |-> [day |-> log.timestamp.day, slot |-> k - 1],
                 hr |-> log.heart_rates[k]]]

\* C11: the rows are the readings of the received logs, log after log in
\* ascending day order and in arrival order within a log, zero readings
\* included; every log belongs to a day that was requested and answered with a
\* log, and a run that returns has the rows of every such day and writes them
\* unchanged.
C11_RowsAreTheLogsInOrder ==
    /\ rows = RowsOf(logs)
    /\ \A j \in 1..Len(logs) :
        /\ \E i \in 1..Len(answers) :
            answers[i] = "log" /\ requests[i] = logs[j].timestamp
        /\ j > 1 => logs[j].timestamp.day > logs[j - 1].timestamp.day
    /\ pc = "done" =>
        /\ Len(logs) = Cardinality({i \in 1..Len(answers) : answers[i] = "log"})
        /\ output.kind = "csv" => output.rows = rows
        /\ output.kind = "summary" => output.total = Len(rows)

\* C11: two days with logs around a day without, zero readings among the rows
C11_Witness ==
    /\ pc = "done"
    /\ output.kind = "csv"
    /\ answers = <<"log", "nodata", "log">>
    /\ Len(output.rows) = 3
    /\ output.rows[1].hr = 72
    /\ output.rows[2] = [ts |-> [day |-> days[1].day, slot |-> 1], hr |-> 0]
    /\ output.rows[3] = [ts |-> [day |-> days[3].day, slot |-> 0], hr |-> 0]

\* the instant a date string stands for once it is normalised
Midnight(s) == DT(s.day, 0, TRUE)

C17_RequestsInsideWindow ==
    /\ \A i \in 1..Len(requests) :
        /\ requests[i].aware
        /\ requests[i].tod = 0
        /\ ~Later(start, requests[i])
        /\ ~Later(requests[i], end)
    /\ (requests # <<>> /\ args.start # NoneStr) =>
            start = DT(args.start.day, 0, TRUE)
    /\ (requests # <<>> /\ args.end # NoneStr) =>
            end = DT(args.end.day, 0, TRUE)

\* C17: a naive --start with a time of day, an outcome of each kind behind,
\* and a third request out
C17_Witness ==
    /\ pc = "await"
    /\ args.start.kind = "str" /\ args.start.form = "naive_time"
    /\ answers = <<"error", "nodata">>
    /\ Len(requests) = 3
    /\ requests[3] = end

\* C12: what collect_spo2 returns to main holds at most --count readings,
\* none of them zero.
C12_AtMostCountNonZero ==
    (mode = "spo2" /\ pc = "done" /\ err = "none") =>
        /\ Len(result) <= count
        /\ \A k \in 1..Len(result) : result[k] # 0

\* the client returned, and nothing it returned is a non-zero reading
NoValidReading ==
    \/ readings.kind = "none"
    \/ readings.kind = "list" /\ NonZero(readings.vals) = <<>>

\* C13: when the client returns nothing, an empty list or only zero readings,
\* no exception is raised: collect_spo2 returns the empty list, realtime_hr
\* prints that there are no readings and returns, and the session is closed
\* when they are over.
C13_NoValidSampleIsNoError ==
    (mode \in {"realtime", "spo2"} /\ NoValidReading) =>
        /\ err = "none"
        /\ pc \in {"rt_exit", "done"}
        /\ pc = "done" =>
            /\ session = "closed"
            /\ mode = "spo2" => result = <<>> /\ output.kind = "spo2_none"
            /\ mode = "realtime" => output.kind \in {"no_readings", "no_nonzero"}

\* C13: realtime_hr got two zero readings and is over
C13_Witness ==
    /\ mode = "realtime"
    /\ pc = "done"
    /\ readings = [kind |-> "list", vals |-> <<0, 0>>]
    /\ output.kind = "no_nonzero"
    /\ session = "closed"
    /\ err = "none"

====
